---- MODULE Spec2Model ----
\* Verification model of the Velodyne batcher (frame builder) and the
\* format-polymorphic converter dispatch of rust-lidar-buffer.
EXTENDS Integers, Sequences, FiniteSets, TLC

\* ---------------------------------------------------------------------
\* Bounds of the model
\* ---------------------------------------------------------------------
\* Start/end azimuths are drawn from 0..MaxAzimuth.
MaxAzimuth == 2
\* Number of firings created over one run of the batcher API.
MaxFirings == 3

Azimuths == 0..MaxAzimuth

\* Option<T>: None is the empty sequence, Some(x) the one-element sequence.
None == <<>>
Some(x) == <<x>>

Last(s) == s[Len(s)]

\* ---------------------------------------------------------------------
\* AzimuthRange trait
\* ---------------------------------------------------------------------
\* A firing ends at its start azimuth or one step further, wrapping at the top.
AzimuthRanges ==
    {r \in [start : Azimuths, end : Azimuths] :
        r.end \in {r.start, (r.start + 1) % (MaxAzimuth + 1)}}

azimuth_range(e) == e.azimuth_range

start_azimuth(e) == azimuth_range(e).start

end_azimuth(e) == azimuth_range(e).end

\* ---------------------------------------------------------------------
\* Batcher: pure step functions
\* ---------------------------------------------------------------------
\* Batcher::default
default == <<>>

\* Batcher::new
new == default

\* push_one that returns a copy of the buffer on a wrap and keeps filling it.
push_one_no_reset(buf, firing) ==
    LET wrap == buf # <<>> /\ start_azimuth(Last(buf)) > start_azimuth(firing)
    IN  IF wrap
        THEN [buffer |-> Append(buf, firing), output |-> Some(buf)]
        ELSE [buffer |-> Append(buf, firing), output |-> None]

\* push_one whose wrap test is not strict.
push_one_ge(buf, firing) ==
    LET wrap == buf # <<>> /\ start_azimuth(Last(buf)) >= start_azimuth(firing)
    IN  IF wrap
        THEN [buffer |-> <<firing>>, output |-> Some(buf)]
        ELSE [buffer |-> Append(buf, firing), output |-> None]

\* push_one that empties the buffer on a wrap and drops the new firing.
push_one_drop(buf, firing) ==
    LET wrap == buf # <<>> /\ start_azimuth(Last(buf)) > start_azimuth(firing)
    IN  IF wrap
        THEN [buffer |-> <<>>, output |-> Some(buf)]
        ELSE [buffer |-> Append(buf, firing), output |-> None]

\* push_one whose wrap test compares the wrong way round.
push_one_reversed(buf, firing) ==
    LET wrap == buf # <<>> /\ start_azimuth(Last(buf)) < start_azimuth(firing)
    IN  IF wrap
        THEN [buffer |-> <<firing>>, output |-> Some(buf)]
        ELSE [buffer |-> Append(buf, firing), output |-> None]

\* Batcher::push_one on buffer buf: the new buffer and the returned Option.
push_one(buf, firing) ==
    LET wrap == buf # <<>> /\ start_azimuth(Last(buf)) > start_azimuth(firing)
    IN  IF wrap
        THEN [buffer |-> <<firing>>, output |-> Some(buf)]
        ELSE [buffer |-> Append(buf, firing), output |-> None]

\* take that tests is_empty without the negation.
take_not_negated(buf) ==
    [buffer |-> <<>>, output |-> IF buf = <<>> THEN Some(buf) ELSE None]

\* take that returns a copy and leaves the buffer as it is.
take_copy(buf) ==
    [buffer |-> buf, output |-> IF buf # <<>> THEN Some(buf) ELSE None]

\* take that returns the buffer also when it is empty.
take_always_some(buf) ==
    [buffer |-> <<>>, output |-> Some(buf)]

\* Batcher::take on buffer buf: the new buffer and the returned Option.
take(buf) ==
    [buffer |-> <<>>, output |-> IF buf # <<>> THEN Some(buf) ELSE None]

\* ---------------------------------------------------------------------
\* Converter: configuration and dispatch
\* ---------------------------------------------------------------------
\* Longest laser table tried in a configuration.
MaxLasers == 33

\* Durations in nanoseconds.
CHANNEL_PERIOD == 2304

FIRING_PERIOD == 55296

FiringFormats == {"Single16", "Single32", "Dual16", "Dual32"}

\* Distance resolutions (millimetres) tried in a configuration.
DistanceResolutions == {-2, 0, 2, 4}

\* Largest azimuth offset (degrees) in a laser table; 0 is the table
\* without azimuth offsets.
AzimuthOffsets == {0, 2}

\* Calibration of laser i in the table of largest azimuth offset o: the
\* azimuth offsets run through -o, 0, +o.
LaserParameter(i, o) ==
    [elevation |-> i, azimuth_offset |-> o * (((i - 1) % 3) - 1),
     vertical_offset |-> 0, horizontal_offset |-> 0]

LaserTable(n, o) == [i \in 1..n |-> LaserParameter(i, o)]

\* Lengths of the laser tables tried: around each beam count.
LaserCounts == {0, 15, 16, 17, 31, 32, MaxLasers}

\* Config, with the format that config.firing_format() reports.
Configs ==
    {[firing_format |-> f, lasers |-> LaserTable(n, o), distance_resolution |-> d] :
        f \in FiringFormats, n \in LaserCounts, o \in AzimuthOffsets,
        d \in DistanceResolutions}

\* Result<T, E>
Ok(v) == [ok |-> TRUE, value |-> v]
Err(e) == [ok |-> FALSE, error |-> e]

\* Vec<LaserParameter> -> [LaserParameter; size]
try_into(lasers, size) ==
    IF Len(lasers) = size THEN Ok(lasers) ELSE Err(lasers)

\* from_config whose Dual16 arm builds the 32-beam table.
from_config_dual16_as_32(config) ==
    LET build(variant, size) ==
            IF try_into(config.lasers, size).ok
            THEN Ok([variant |-> variant,
                     lasers |-> try_into(config.lasers, size).value,
                     distance_resolution |-> config.distance_resolution])
            ELSE Err("invalid laser parameters")
    IN  CASE config.firing_format = "Single16" -> build("Single16", 16)
          [] config.firing_format = "Dual16" -> build("Dual16", 32)
          [] config.firing_format = "Single32" -> build("Single32", 32)
          [] config.firing_format = "Dual32" -> build("Dual32", 32)

\* ConverterKind::from_config
from_config(config) ==
    LET firing_format == config.firing_format
        lasers == config.lasers
        distance_resolution == config.distance_resolution
        err == "invalid laser parameters"
        build(variant, size) ==
            IF try_into(lasers, size).ok
            THEN Ok([variant |-> variant,
                     lasers |-> try_into(lasers, size).value,
                     distance_resolution |-> distance_resolution])
            ELSE Err(err)
    IN  CASE firing_format = "Single16" -> build("Single16", 16)
          [] firing_format = "Dual16" -> build("Dual16", 16)
          [] firing_format = "Single32" -> build("Single32", 32)
          [] firing_format = "Dual32" -> build("Dual32", 32)

\* ConverterKind::firing_format
firing_format(conv) ==
    CASE conv.variant = "Single16" -> "Single16"
      [] conv.variant = "Single32" -> "Single32"
      [] conv.variant = "Dual16" -> "Dual16"
      [] conv.variant = "Dual32" -> "Dual32"

\* Channels of one block half: channel k (from 1) of a block whose first
\* raw distance is d.
Channels(n, d) == [k \in 1..n |-> [distance |-> d + k - 1, intensity |-> k - 1]]

\* A firing of the given variant, as the firing extractor hands it over.
MakeFiring(variant, time, range, d) ==
    CASE variant = "Single16" ->
           [variant |-> variant, time |-> time, azimuth_range |-> range,
            channels |-> Channels(16, d), block |-> [azimuth_count |-> range.start]]
      [] variant = "Single32" ->
           [variant |-> variant, time |-> time, azimuth_range |-> range,
            channels |-> Channels(32, d), block |-> [azimuth_count |-> range.start]]
      [] variant = "Dual16" ->
           [variant |-> variant, time |-> time, azimuth_range |-> range,
            channels_strongest |-> Channels(16, d), channels_last |-> Channels(16, d + 1),
            block_strongest |-> [azimuth_count |-> range.start]]
      [] variant = "Dual32" ->
           [variant |-> variant, time |-> time, azimuth_range |-> range,
            channels_strongest |-> Channels(32, d), channels_last |-> Channels(32, d + 1),
            block_strongest |-> [azimuth_count |-> range.start]]

\* iter::successors(Some(first), |&prev| Some(prev + CHANNEL_PERIOD)), as far
\* as its first n items.
RECURSIVE successors(_, _)
successors(first, n) ==
    IF n = 0 THEN <<>> ELSE <<first>> \o successors(first + CHANNEL_PERIOD, n - 1)

\* .flat_map(|time| [time, time])
RECURSIVE flat_map_twice(_)
flat_map_twice(times) ==
    IF times = <<>> THEN <<>>
    ELSE <<Head(times), Head(times)>> \o flat_map_twice(Tail(times))

\* channel_times of the 16-beam variants that start one period late.
channel_times_16_late(firing_time) == successors(firing_time + CHANNEL_PERIOD, 16)

\* channel_times of the 16-beam variants, as far as izip! reads them.
channel_times_16(firing_time) == successors(firing_time, 16)

\* channel_times of the 32-beam variants without the doubling.
channel_times_32_single(firing_time) == successors(firing_time, 32)

\* channel_times of the 32-beam variants, as far as izip! reads them: every
\* successor taken twice.
channel_times_32(firing_time) == flat_map_twice(successors(firing_time, 16))

\* Angles handed to the projector (azimuth ranges, laser calibration) are in
\* whole degrees. Angles it computes are in 1/FIRING_PERIOD of a degree, which
\* keeps the interpolation by (channel_time - firing_time) / FIRING_PERIOD exact.
TwoPi == 360

\* The angle of deg whole degrees, in the projector's unit.
Scaled(deg) == deg * FIRING_PERIOD

\* AngleExt::wrap_to_2pi: the angle brought into [0, 2 pi).
wrap_to_2pi(angle) == angle % Scaled(TwoPi)

\* Sine and cosine, exact on the multiples of a quarter turn.
AxisAligned(angle) == wrap_to_2pi(angle) % Scaled(90) = 0

Sin(angle) ==
    LET sin(a) == CASE a = Scaled(0) -> 0
                    [] a = Scaled(90) -> 1
                    [] a = Scaled(180) -> 0
                    [] a = Scaled(270) -> -1
    IN  sin(wrap_to_2pi(angle))

Cos(angle) ==
    LET cos(a) == CASE a = Scaled(0) -> 1
                    [] a = Scaled(90) -> 0
                    [] a = Scaled(180) -> -1
                    [] a = Scaled(270) -> 0
    IN  cos(wrap_to_2pi(angle))

\* spherical_to_xyz with the azimuth measured from the x axis.
spherical_to_xyz_from_x(distance, elevation, azimuth, vertical_offset, horizontal_offset) ==
    LET xyz(sin_el, cos_el, sin_az, cos_az) ==
            LET distance_plane == distance * cos_el - vertical_offset * sin_el
                x == distance_plane * cos_az - horizontal_offset * sin_az
                y == distance_plane * sin_az + horizontal_offset * cos_az
                z == distance * sin_el + vertical_offset * cos_el
            IN  <<x, y, z>>
    IN  IF AxisAligned(elevation) /\ AxisAligned(azimuth)
        THEN xyz(Sin(elevation), Cos(elevation), Sin(azimuth), Cos(azimuth))
        ELSE [distance |-> distance, elevation |-> elevation, azimuth |-> azimuth,
              vertical_offset |-> vertical_offset,
              horizontal_offset |-> horizontal_offset]

\* spherical_to_xyz: [x, y, z], worked out where both angles are multiples
\* of a quarter turn; elsewhere the result is kept as the term of its five
\* arguments.
spherical_to_xyz(distance, elevation, azimuth, vertical_offset, horizontal_offset) ==
    LET xyz(sin_el, cos_el, sin_az, cos_az) ==
            LET distance_plane == distance * cos_el - vertical_offset * sin_el
                x == distance_plane * sin_az - horizontal_offset * cos_az
                y == distance_plane * cos_az + horizontal_offset * sin_az
                z == distance * sin_el + vertical_offset * cos_el
            IN  <<x, y, z>>
    IN  IF AxisAligned(elevation) /\ AxisAligned(azimuth)
        THEN xyz(Sin(elevation), Cos(elevation), Sin(azimuth), Cos(azimuth))
        ELSE [distance |-> distance, elevation |-> elevation, azimuth |-> azimuth,
              vertical_offset |-> vertical_offset,
              horizontal_offset |-> horizontal_offset]

\* The azimuth block of the projector without the final wrap_to_2pi.
point_azimuth_no_wrap(range, channel_time, firing_time, azimuth_offset) ==
    Scaled(range.start)
        + (range.end - range.start) * (channel_time - firing_time)
        + Scaled(azimuth_offset)

\* The azimuth block shared by the four projectors: start + (end - start) *
\* ratio + azimuth_offset, wrapped, with
\* ratio = (channel_time - firing_time) / FIRING_PERIOD.
point_azimuth(range, channel_time, firing_time, azimuth_offset) ==
    LET azimuth == Scaled(range.start)
                     + (range.end - range.start)
                         * (channel_time - firing_time)
                     + Scaled(azimuth_offset)
    IN  wrap_to_2pi(azimuth)

\* The point of a single-return variant built from one zipped tuple
\* (laser_id, channel_time, channel, laser).
PointSingle(laser_id, channel_time, channel, laser, firing, distance_resolution) ==
    LET point(azimuth, distance) ==
            [laser_id |-> laser_id,
             time |-> channel_time,
             azimuth |-> azimuth,
             measurement |->
                [distance |-> distance,
                 intensity |-> channel.intensity,
                 xyz |-> spherical_to_xyz(distance, Scaled(laser.elevation), azimuth,
                                          laser.vertical_offset,
                                          laser.horizontal_offset)]]
    IN  point(point_azimuth(firing.azimuth_range, channel_time, firing.time,
                            laser.azimuth_offset),
              distance_resolution * channel.distance)

\* The point of a dual-return variant built from one zipped tuple
\* (laser_id, channel_time, channel_strongest, channel_last, laser).
PointDual(laser_id, channel_time, channel_strongest, channel_last, laser, firing, distance_resolution) ==
    LET measurement(azimuth, distance, intensity) ==
            [distance |-> distance,
             intensity |-> intensity,
             xyz |-> spherical_to_xyz(distance, Scaled(laser.elevation), azimuth,
                                      laser.vertical_offset, laser.horizontal_offset)]
        point(azimuth) ==
            [laser_id |-> laser_id,
             time |-> channel_time,
             azimuth |-> azimuth,
             measurements |->
                [strongest |->
                    measurement(azimuth,
                                distance_resolution * channel_strongest.distance,
                                channel_strongest.intensity),
                 last |->
                    measurement(azimuth, distance_resolution * channel_last.distance,
                                channel_last.intensity)]]
    IN  point(point_azimuth(firing.azimuth_range, channel_time, firing.time,
                            laser.azimuth_offset))

\* firing_single_16_to_xyz with laser ids counted from 1.
firing_single_16_to_xyz_from_1(firing, distance_resolution, lasers) ==
    LET channel_times == channel_times_16(firing.time)
    IN  [variant |-> "Single16",
         time |-> firing.time,
         azimuth_count |-> firing.block.azimuth_count,
         azimuth_range |-> firing.azimuth_range,
         points |-> [k \in 1..16 |->
                       PointSingle(k, channel_times[k], firing.channels[k],
                                   lasers[k], firing, distance_resolution)]]

firing_single_16_to_xyz(firing, distance_resolution, lasers) ==
    LET channel_times == channel_times_16(firing.time)
    IN  [variant |-> "Single16",
         time |-> firing.time,
         azimuth_count |-> firing.block.azimuth_count,
         azimuth_range |-> firing.azimuth_range,
         points |-> [k \in 1..16 |->
                       PointSingle(k - 1, channel_times[k], firing.channels[k],
                                   lasers[k], firing, distance_resolution)]]

firing_single_32_to_xyz(firing, distance_resolution, lasers) ==
    LET channel_times == channel_times_32(firing.time)
    IN  [variant |-> "Single32",
         time |-> firing.time,
         azimuth_count |-> firing.block.azimuth_count,
         azimuth_range |-> firing.azimuth_range,
         points |-> [k \in 1..32 |->
                       PointSingle(k - 1, channel_times[k], firing.channels[k],
                                   lasers[k], firing, distance_resolution)]]

firing_dual_16_to_xyz(firing, distance_resolution, lasers) ==
    LET channel_times == channel_times_16(firing.time)
    IN  [variant |-> "Dual16",
         time |-> firing.time,
         azimuth_count |-> firing.block_strongest.azimuth_count,
         azimuth_range |-> firing.azimuth_range,
         points |-> [k \in 1..16 |->
                       PointDual(k - 1, channel_times[k], firing.channels_strongest[k],
                                 firing.channels_last[k], lasers[k], firing,
                                 distance_resolution)]]

firing_dual_32_to_xyz(firing, distance_resolution, lasers) ==
    LET channel_times == channel_times_32(firing.time)
    IN  [variant |-> "Dual32",
         time |-> firing.time,
         azimuth_count |-> firing.block_strongest.azimuth_count,
         azimuth_range |-> firing.azimuth_range,
         points |-> [k \in 1..32 |->
                       PointDual(k - 1, channel_times[k], firing.channels_strongest[k],
                                 firing.channels_last[k], lasers[k], firing,
                                 distance_resolution)]]

\* $name::firing_to_firing_xyz of the converter struct of conv's variant.
firing_to_firing_xyz(conv, firing) ==
    CASE conv.variant = "Single16" ->
           firing_single_16_to_xyz(firing, conv.distance_resolution, conv.lasers)
      [] conv.variant = "Single32" ->
           firing_single_32_to_xyz(firing, conv.distance_resolution, conv.lasers)
      [] conv.variant = "Dual16" ->
           firing_dual_16_to_xyz(firing, conv.distance_resolution, conv.lasers)
      [] conv.variant = "Dual32" ->
           firing_dual_32_to_xyz(firing, conv.distance_resolution, conv.lasers)

\* Dispatch that lets a single-return converter take the strongest returns
\* of a dual firing with the same beam count.
kind_firing_to_firing_xyz_by_beams(conv, firing) ==
    LET strongest == [variant |-> conv.variant, time |-> firing.time,
                      azimuth_range |-> firing.azimuth_range,
                      channels |-> firing.channels_strongest,
                      block |-> firing.block_strongest]
    IN  CASE conv.variant = firing.variant ->
               Ok(firing_to_firing_xyz(conv, firing))
          [] conv.variant = "Single16" /\ firing.variant = "Dual16" ->
               Ok(firing_to_firing_xyz(conv, strongest))
          [] conv.variant = "Single32" /\ firing.variant = "Dual32" ->
               Ok(firing_to_firing_xyz(conv, strongest))
          [] OTHER -> Err(firing)

\* ConverterKind::firing_to_firing_xyz: Ok(FiringXyzKind) when the variants
\* match, otherwise the firing itself as the error.
kind_firing_to_firing_xyz(conv, firing) ==
    CASE conv.variant = "Single16" /\ firing.variant = "Single16" ->
           Ok(firing_to_firing_xyz(conv, firing))
      [] conv.variant = "Single32" /\ firing.variant = "Single32" ->
           Ok(firing_to_firing_xyz(conv, firing))
      [] conv.variant = "Dual16" /\ firing.variant = "Dual16" ->
           Ok(firing_to_firing_xyz(conv, firing))
      [] conv.variant = "Dual32" /\ firing.variant = "Dual32" ->
           Ok(firing_to_firing_xyz(conv, firing))
      [] OTHER -> Err(firing)

\* ---------------------------------------------------------------------
\* Input iterators
\* ---------------------------------------------------------------------
\* A Vec's IntoIter over the remaining items.
VecIter(items) == [kind |-> "vec", items |-> items]

\* Placeholder while no adapter is alive.
NoIter == VecIter(<<>>)

\* DataPacket::single_16_firings and its three siblings: the firings of the
\* converter's variant extracted from a packet, in block order. A packet is
\* the sequence of its decoded blocks (time, azimuth range, raw distance).
packet_firings(packet, variant) ==
    [i \in 1..Len(packet) |->
        MakeFiring(variant, packet[i].time, packet[i].azimuth_range, packet[i].d)]

\* $name::firing_iter_to_firing_xyz_iter: the Map over the firings; nothing
\* is projected at construction.
firing_iter_to_firing_xyz_iter(conv, firings) ==
    [kind |-> "map", conv |-> conv, firings |-> firings]

\* packet_to_firing_xyz_iter that hands out the packet's firings last first.
packet_to_firing_xyz_iter_reversed(conv, packet) ==
    LET firings == packet_firings(packet, conv.variant)
    IN  [i \in 1..Len(firings) |->
            firing_to_firing_xyz(conv, firings[Len(firings) + 1 - i])]

\* $name::packet_to_firing_xyz_iter, collected: every firing of the packet
\* projected, in order.
packet_to_firing_xyz_iter(conv, packet) ==
    LET firings == packet_firings(packet, conv.variant)
    IN  [i \in 1..Len(firings) |-> firing_to_firing_xyz(conv, firings[i])]

\* $name::packet_iter_to_firing_xyz_iter: the FlatMap over the packets; no
\* packet is pulled at construction.
packet_iter_to_firing_xyz_iter(conv, packets) ==
    [kind |-> "flat_map", conv |-> conv, packets |-> packets, frontiter |-> <<>>]

\* Iterator::next of a FlatMap that pulls the following packet as soon as
\* it hands out the last firing of the current one.
RECURSIVE iter_next_prefetch(_)
iter_next_prefetch(it) ==
    IF it.kind = "vec"
    THEN IF it.items # <<>>
         THEN [iter |-> VecIter(Tail(it.items)), item |-> Some(Head(it.items))]
         ELSE [iter |-> it, item |-> None]
    ELSE IF it.kind = "map"
    THEN IF it.firings # <<>>
         THEN [iter |-> [it EXCEPT !.firings = Tail(it.firings)],
               item |-> Some(firing_to_firing_xyz(it.conv, Head(it.firings)))]
         ELSE [iter |-> it, item |-> None]
    ELSE IF it.frontiter # <<>>
         THEN [iter |->
                 IF Len(it.frontiter) = 1 /\ it.packets # <<>>
                 THEN [it EXCEPT
                         !.packets = Tail(it.packets),
                         !.frontiter = packet_to_firing_xyz_iter(it.conv, Head(it.packets))]
                 ELSE [it EXCEPT !.frontiter = Tail(it.frontiter)],
               item |-> Some(Head(it.frontiter))]
         ELSE IF it.packets = <<>>
              THEN [iter |-> it, item |-> None]
              ELSE iter_next_prefetch([it EXCEPT
                       !.packets = Tail(it.packets),
                       !.frontiter = packet_to_firing_xyz_iter(it.conv, Head(it.packets))])

\* Iterator::next on an input iterator: the iterator afterwards and the item.
\* The FlatMap hands out the collected firings of the current packet and
\* pulls the next packet only when they are used up.
RECURSIVE iter_next(_)
iter_next(it) ==
    IF it.kind = "vec"
    THEN IF it.items # <<>>
         THEN [iter |-> VecIter(Tail(it.items)), item |-> Some(Head(it.items))]
         ELSE [iter |-> it, item |-> None]
    ELSE IF it.kind = "map"
    THEN IF it.firings # <<>>
         THEN [iter |-> [it EXCEPT !.firings = Tail(it.firings)],
               item |-> Some(firing_to_firing_xyz(it.conv, Head(it.firings)))]
         ELSE [iter |-> it, item |-> None]
    ELSE IF it.frontiter # <<>>
         THEN [iter |-> [it EXCEPT !.frontiter = Tail(it.frontiter)],
               item |-> Some(Head(it.frontiter))]
         ELSE IF it.packets = <<>>
              THEN [iter |-> it, item |-> None]
              ELSE iter_next([it EXCEPT
                       !.packets = Tail(it.packets),
                       !.frontiter = packet_to_firing_xyz_iter(it.conv, Head(it.packets))])

\* Concatenation of a sequence of sequences.
RECURSIVE Concat(_)
Concat(frames) ==
    IF frames = <<>> THEN <<>> ELSE Head(frames) \o Concat(Tail(frames))

\* The items an iterator has not handed out yet, in order.
Unpulled(it) ==
    IF it.kind = "vec"
    THEN it.items
    ELSE IF it.kind = "map"
    THEN [i \in 1..Len(it.firings) |-> firing_to_firing_xyz(it.conv, it.firings[i])]
    ELSE it.frontiter \o
         Concat([p \in 1..Len(it.packets) |->
                    packet_to_firing_xyz_iter(it.conv, it.packets[p])])

\* ---------------------------------------------------------------------
\* Batcher: iterator adapters
\* ---------------------------------------------------------------------
\* next() of a push_many that flushes the buffer when its input ends.
RECURSIVE push_many_next_flush(_, _)
push_many_next_flush(buf, it) ==
    LET pushed(n) ==
            IF n.item = None
            THEN [buffer |-> take(buf).buffer, iter |-> n.iter,
                  output |-> take(buf).output]
            ELSE LET r == push_one(buf, n.item[1])
                 IN  IF r.output # None
                     THEN [buffer |-> r.buffer, iter |-> n.iter, output |-> r.output]
                     ELSE push_many_next_flush(r.buffer, n.iter)
    IN  pushed(iter_next(it))

\* next() of the FilterMap returned by Batcher::push_many: pull firings and
\* push each one until push_one returns a batch or the input ends.
RECURSIVE push_many_next(_, _)
push_many_next(buf, it) ==
    LET pushed(n) ==
            IF n.item = None
            THEN [buffer |-> buf, iter |-> n.iter, output |-> None]
            ELSE LET r == push_one(buf, n.item[1])
                 IN  IF r.output # None
                     THEN [buffer |-> r.buffer, iter |-> n.iter, output |-> r.output]
                     ELSE push_many_next(r.buffer, n.iter)
    IN  pushed(iter_next(it))

\* The closure without the flush: at end of input it ends the sequence and
\* leaves the buffered firings behind.
from_fn_closure_no_flush(st) ==
    LET called(n) ==
            IF n.item # None
            THEN LET r == push_one(st.buffer, n.item[1])
                 IN  [some |-> TRUE, iter |-> n.iter, buffer |-> r.buffer,
                      output |-> Some(r.output)]
            ELSE [some |-> FALSE, iter |-> n.iter, buffer |-> st.buffer,
                  output |-> None]
    IN  IF st.some
        THEN called(iter_next(st.iter))
        ELSE [some |-> FALSE, iter |-> st.iter, buffer |-> st.buffer, output |-> None]

\* The closure that polls the input again after it has ended.
from_fn_closure_poll_after_end(st) ==
    LET called(n) ==
            IF n.item # None
            THEN LET r == push_one(st.buffer, n.item[1])
                 IN  [some |-> TRUE, iter |-> n.iter, buffer |-> r.buffer,
                      output |-> Some(r.output)]
            ELSE IF st.some
                 THEN LET r == take(st.buffer)
                      IN  [some |-> FALSE, iter |-> n.iter, buffer |-> r.buffer,
                           output |-> Some(r.output)]
                 ELSE [some |-> FALSE, iter |-> n.iter, buffer |-> st.buffer,
                       output |-> None]
    IN  called(iter_next(st.iter))

\* One call of the closure handed to iter::from_fn in Batcher::with_iter.
\* st is the captured `state` (some = FALSE models None) with its iterator
\* and batcher; the output is an Option<Option<Vec<E>>>.
from_fn_closure(st) ==
    LET called(n) ==
            IF n.item # None
            THEN LET r == push_one(st.buffer, n.item[1])
                 IN  [some |-> TRUE, iter |-> n.iter, buffer |-> r.buffer,
                      output |-> Some(r.output)]
            ELSE LET r == take(st.buffer)
                 IN  [some |-> FALSE, iter |-> n.iter, buffer |-> r.buffer,
                      output |-> Some(r.output)]
    IN  IF st.some
        THEN called(iter_next(st.iter))
        ELSE [some |-> FALSE, iter |-> st.iter, buffer |-> st.buffer, output |-> None]

\* next() of the Flatten around from_fn: call the closure until it yields
\* Some(Some(batch)) or None; Some(None) items are skipped.
RECURSIVE with_iter_next(_)
with_iter_next(st) ==
    LET flattened(c) ==
            IF c.output = None
            THEN [some |-> c.some, iter |-> c.iter, buffer |-> c.buffer,
                  output |-> None]
            ELSE IF c.output[1] = None
                 THEN with_iter_next([some |-> c.some, iter |-> c.iter,
                                      buffer |-> c.buffer])
                 ELSE [some |-> c.some, iter |-> c.iter, buffer |-> c.buffer,
                       output |-> c.output[1]]
    IN  flattened(from_fn_closure(st))

\* ---------------------------------------------------------------------
\* Ouster: CommandClient
\* ---------------------------------------------------------------------
\* Most items the sensor's side of the stream holds before it closes.
MaxResponses == 2

\* What reader.next() can give: a line of text, or an I/O error. The end of
\* the items is the closed stream.
Line(text) == [kind |-> "line", text |-> text]

IoError == [kind |-> "io_error"]

\* The lines a sensor may answer: the three echoes, a JSON document, and a
\* line that is neither.
ResponseItems ==
    {Line("reinitialize"), Line("write_config_txt"), Line("set_config_param"),
     Line("{}"), Line("error: invalid"), IoError}

\* The value of type ().
Unit == <<>>

\* CommandClient { reader, writer }: the items `reader` has still to give,
\* the number of command lines `writer` has sent and the last of them (as
\* its words); alive is FALSE once the client has been consumed, or where
\* there is none.
CommandClient(incoming) ==
    [alive |-> TRUE, incoming |-> incoming, written |-> 0, line |-> <<>>]

NoClient == [alive |-> FALSE, incoming |-> <<>>, written |-> 0, line |-> <<>>]

\* self.writer.write_all(command), when it succeeds.
write_all(self, command) ==
    [self EXCEPT !.written = @ + 1, !.line = command]

\* read_line that leaves the item it reports in the stream.
read_line_peek(self) ==
    IF self.incoming = <<>>
    THEN [self |-> self, result |-> Err("Unexpected end of stream")]
    ELSE LET item == Head(self.incoming)
         IN  IF item.kind = "line"
             THEN [self |-> self, result |-> Ok(item.text)]
             ELSE [self |-> self, result |-> Err("io")]

\* self.reader.next().ok_or(format_err!("Unexpected end of stream"))??
read_line(self) ==
    IF self.incoming = <<>>
    THEN [self |-> self, result |-> Err("Unexpected end of stream")]
    ELSE LET item == Head(self.incoming)
             rest == [self EXCEPT !.incoming = Tail(@)]
         IN  IF item.kind = "line"
             THEN [self |-> rest, result |-> Ok(item.text)]
             ELSE [self |-> rest, result |-> Err("io")]

\* serde_json::from_str(&line): the documents of the model are the lines
\* that start an object.
from_str(line) == IF line = "{}" THEN Ok(line) ELSE Err("json")

\* CommandClient::get_config_txt and its four siblings, which differ in the
\* command word only. write_ok says whether write_all succeeds.
get(self, command, write_ok) ==
    IF ~write_ok
    THEN [self |-> self, result |-> Err("io")]
    ELSE LET r == read_line(write_all(self, <<command>>))
         IN  IF ~r.result.ok
             THEN r
             ELSE [self |-> r.self, result |-> from_str(r.result.value)]

\* CommandClient::reinitialize; the client is consumed whatever the result.
reinitialize(self, write_ok) ==
    LET dropped(c) == [c EXCEPT !.alive = FALSE]
    IN  IF ~write_ok
        THEN [self |-> dropped(self), result |-> Err("io")]
        ELSE LET r == read_line(write_all(self, <<"reinitialize">>))
             IN  IF ~r.result.ok
                 THEN [self |-> dropped(r.self), result |-> r.result]
                 ELSE IF r.result.value = "reinitialize"
                      THEN [self |-> dropped(r.self), result |-> Ok(Unit)]
                      ELSE [self |-> dropped(r.self),
                            result |-> Err("Unexpected response")]

\* CommandClient::write_config_txt
write_config_txt(self, write_ok) ==
    IF ~write_ok
    THEN [self |-> self, result |-> Err("io")]
    ELSE LET r == read_line(write_all(self, <<"write_config_txt">>))
         IN  IF ~r.result.ok
             THEN r
             ELSE IF r.result.value = "write_config_txt"
                  THEN [self |-> r.self, result |-> Ok(Unit)]
                  ELSE [self |-> r.self, result |-> Err("Unexpected response")]

\* set_config_param that takes any response line for the echo.
set_config_param_any_line(self, param, arg, write_ok) ==
    IF ~write_ok
    THEN [self |-> self, result |-> Err("io")]
    ELSE LET command == <<"set_config_param", param, arg>>
             r == read_line(write_all(self, command))
         IN  IF ~r.result.ok
             THEN r
             ELSE [self |-> r.self, result |-> Ok(Unit)]

\* CommandClient::set_config_param
set_config_param(self, param, arg, write_ok) ==
    IF ~write_ok
    THEN [self |-> self, result |-> Err("io")]
    ELSE LET command == <<"set_config_param", param, arg>>
             r == read_line(write_all(self, command))
         IN  IF ~r.result.ok
             THEN r
             ELSE IF r.result.value = "set_config_param"
                  THEN [self |-> r.self, result |-> Ok(Unit)]
                  ELSE [self |-> r.self, result |-> Err("Unexpected response")]

\* The seven setters: each is set_config_param(param, value)?; Ok(()).
set_udp_ip(self, ip, write_ok) == set_config_param(self, "udp_ip", ip, write_ok)

set_udp_port_lidar(self, port, write_ok) ==
    set_config_param(self, "udp_port_lidar", port, write_ok)

set_udp_port_imu(self, port, write_ok) ==
    set_config_param(self, "udp_port_imu", port, write_ok)

set_lidar_mode(self, lidar_mode, write_ok) ==
    set_config_param(self, "lidar_mode", lidar_mode, write_ok)

set_timestamp_mode(self, timestamp_mode, write_ok) ==
    set_config_param(self, "timestamp_mode", timestamp_mode, write_ok)

set_sync_pulse_in_polarity(self, polarity, write_ok) ==
    set_config_param(self, "sync_pulse_in_polarity", polarity, write_ok)

set_nmea_in_polarity(self, polarity, write_ok) ==
    set_config_param(self, "nmea_in_polarity", polarity, write_ok)

\* ---------------------------------------------------------------------
\* Ouster: booleans written as integers
\* ---------------------------------------------------------------------
\* Largest unsigned integer among the JSON values of the model.
MaxU64 == 7

\* JSON values: v is the number, or stands for the content otherwise.
U64(n) == [kind |-> "u64", v |-> n]

JsonValues ==
    {U64(n) : n \in 0..MaxU64}
        \cup {[kind |-> "i64", v |-> -1], [kind |-> "f64", v |-> 1],
              [kind |-> "string", v |-> 1], [kind |-> "bool", v |-> 1]}

\* The fields that carry serialize_with / deserialize_with.
BoolAsIntFields ==
    {"ConfigText.nmea_ignore_valid_char", "ConfigText.auto_start_flag",
     "SyncPulseInInfo.locked", "NmeaInfo.ignore_valid_char", "NmeaInfo.locked"}

\* ser_bool_to_int, into a serializer that writes JSON values.
ser_bool_to_int(value) ==
    CASE value = TRUE -> Ok(U64(1))
      [] value = FALSE -> Ok(U64(0))

\* u64::deserialize(deserializer) on a JSON value
u64_deserialize(json) ==
    IF json.kind = "u64" THEN Ok(json.v) ELSE Err("invalid type")

\* de_bool_from_int that takes every integer but 0 for true.
de_bool_from_int_nonzero(json) ==
    LET matched(n) ==
            IF ~n.ok
            THEN n
            ELSE CASE n.value = 0 -> Ok(FALSE)
                   [] OTHER -> Ok(TRUE)
    IN  matched(u64_deserialize(json))

\* de_bool_from_int, from a deserializer that reads a JSON value.
de_bool_from_int(json) ==
    LET matched(n) ==
            IF ~n.ok
            THEN n
            ELSE CASE n.value = 1 -> Ok(TRUE)
                   [] n.value = 0 -> Ok(FALSE)
                   [] OTHER -> Err("invalid value")
    IN  matched(u64_deserialize(json))

\* ---------------------------------------------------------------------
\* State of the batcher API
\* ---------------------------------------------------------------------
VARIABLES
    buffer,     \* Batcher::buffer
    mode,       \* "idle", "push_many" (batcher borrowed), "with_iter" (batcher moved)
    iter,       \* the input iterator owned by the live adapter
    state,      \* with_iter: TRUE while the closure's `state` is Some
    nextId,     \* id of the next firing to be created
    op,         \* the last operation and its argument
    ret,        \* what the last operation returned
    iterInit,   \* history: the batcher's buffer when with_iter was called
    iterInput,  \* history: the whole input handed to the adapter or stream
    yielded,    \* history: the frames emitted so far, in order
    converter,  \* the Result of the last ConverterKind::from_config, or None
    client      \* the Ouster CommandClient and the sensor's side of its stream

vars ==
    <<buffer, mode, iter, state, nextId, op, ret, iterInit, iterInput, yielded,
      converter, client>>

\* The firings with ids from, from+1, ... and the given azimuth ranges.
MakeFirings(from, ranges) ==
    [i \in 1..Len(ranges) |-> [id |-> from + i - 1, azimuth_range |-> ranges[i]]]

\* Sequences over S of length 0..n.
SeqUpTo(S, n) == UNION {[1..k -> S] : k \in 0..n}

Init ==
    /\ buffer = new
    /\ mode = "idle"
    /\ iter = NoIter
    /\ state = FALSE
    /\ nextId = 1
    /\ op = [name |-> "new", arg |-> None]
    /\ ret = None
    /\ iterInit = <<>>
    /\ iterInput = <<>>
    /\ yielded = <<>>
    /\ converter = None
    /\ client = NoClient

\* batcher.push_one(firing)
PushOne ==
    /\ mode = "idle"
    /\ nextId <= MaxFirings
    /\ \E range \in AzimuthRanges :
         LET firing == [id |-> nextId, azimuth_range |-> range]
             r == push_one(buffer, firing)
         IN  /\ buffer' = r.buffer
             /\ ret' = r.output
             /\ op' = [name |-> "push_one", arg |-> firing]
    /\ nextId' = nextId + 1
    /\ UNCHANGED <<client, converter, mode, iter, state, iterInit, iterInput, yielded>>

\* batcher.take()
Take ==
    /\ mode = "idle"
    /\ LET r == take(buffer)
       IN  /\ buffer' = r.buffer
           /\ ret' = r.output
    /\ op' = [name |-> "take", arg |-> None]
    /\ UNCHANGED <<client, converter, mode, iter, state, nextId, iterInit, iterInput, yielded>>

\* batcher.push_many(firings): builds the lazy adapter, pushes nothing yet.
PushMany ==
    /\ mode = "idle"
    /\ \E ranges \in SeqUpTo(AzimuthRanges, MaxFirings + 1 - nextId) :
         LET firings == MakeFirings(nextId, ranges)
         IN  /\ iter' = VecIter(firings)
             /\ op' = [name |-> "push_many", arg |-> firings]
             /\ nextId' = nextId + Len(ranges)
    /\ mode' = "push_many"
    /\ ret' = None
    /\ UNCHANGED <<client, converter, buffer, state, iterInit, iterInput, yielded>>

\* next() on the iterator returned by push_many
PushManyNext ==
    /\ mode = "push_many"
    /\ LET returns(r) ==
               /\ buffer' = r.buffer
               /\ iter' = r.iter
               /\ ret' = r.output
       IN  returns(push_many_next(buffer, iter))
    /\ op' = [name |-> "push_many_next", arg |-> None]
    /\ UNCHANGED <<client, converter, mode, state, nextId, iterInit, iterInput, yielded>>

\* The iterator returned by push_many is dropped; the borrow ends.
PushManyDrop ==
    /\ mode = "push_many"
    /\ mode' = "idle"
    /\ iter' = NoIter
    /\ op' = [name |-> "push_many_drop", arg |-> None]
    /\ ret' = None
    /\ UNCHANGED <<client, converter, buffer, state, nextId, iterInit, iterInput, yielded>>

\* batcher.with_iter(firings): moves the batcher into the adapter.
WithIter ==
    /\ mode = "idle"
    /\ \E ranges \in SeqUpTo(AzimuthRanges, MaxFirings + 1 - nextId) :
         LET firings == MakeFirings(nextId, ranges)
         IN  /\ iter' = VecIter(firings)
             /\ iterInput' = firings
             /\ op' = [name |-> "with_iter", arg |-> firings]
             /\ nextId' = nextId + Len(ranges)
    /\ mode' = "with_iter"
    /\ state' = TRUE
    /\ iterInit' = buffer
    /\ yielded' = <<>>
    /\ ret' = None
    /\ UNCHANGED <<client, converter, buffer>>

\* Most packets handed to one pipeline.
MaxPackets == 2

\* Firings extracted from one packet.
FiringsPerPacket == 2

\* The packets whose first blocks have the given start azimuths: inside a
\* packet the azimuth advances by one step per firing and wraps at the top,
\* every firing ending where the next one starts; block times advance by
\* FIRING_PERIOD through the whole stream.
MakePackets(starts) ==
    [p \in 1..Len(starts) |->
        [i \in 1..FiringsPerPacket |->
            [time |-> ((p - 1) * FiringsPerPacket + i - 1) * FIRING_PERIOD,
             azimuth_range |-> [start |-> (starts[p] + i - 1) % (MaxAzimuth + 1),
                                end |-> (starts[p] + i) % (MaxAzimuth + 1)],
             d |-> 0]]]

PacketStreams == {MakePackets(starts) : starts \in SeqUpTo(Azimuths, MaxPackets)}

\* The converters of the four formats, built from a well-formed
\* configuration with the 2 mm resolution.
Converters ==
    {from_config([firing_format |-> f,
                  lasers |-> LaserTable(IF f \in {"Single16", "Dual16"} THEN 16 ELSE 32, 0),
                  distance_resolution |-> 2]).value : f \in FiringFormats}

\* FiringXyzIter::into_frame_iter: a new batcher framing the firings.
into_frame_iter(firings) == [iter |-> firings, buffer |-> new, some |-> TRUE]

\* converter.packet_iter_to_frame_xyz_iter(packets): builds the lazy
\* pipeline packets -> projected firings -> frames.
PacketIterToFrameXyzIter ==
    /\ mode = "idle"
    /\ nextId = 1
    /\ \E conv \in Converters, packets \in PacketStreams :
         LET a == into_frame_iter(packet_iter_to_firing_xyz_iter(conv, packets))
         IN  /\ iter' = a.iter
             /\ buffer' = a.buffer
             /\ state' = a.some
             /\ iterInit' = a.buffer
             /\ iterInput' = Unpulled(a.iter)
             /\ op' = [name |-> "packet_iter_to_frame_xyz_iter", arg |-> packets]
    /\ mode' = "with_iter"
    /\ yielded' = <<>>
    /\ ret' = None
    /\ UNCHANGED <<client, converter, nextId>>

\* next() on the iterator returned by with_iter
WithIterNext ==
    /\ mode = "with_iter"
    /\ LET returns(r) ==
               /\ state' = r.some
               /\ iter' = r.iter
               /\ buffer' = r.buffer
               /\ ret' = r.output
               /\ yielded' = yielded \o r.output
       IN  returns(with_iter_next([some |-> state, iter |-> iter, buffer |-> buffer]))
    /\ op' = [name |-> "with_iter_next", arg |-> None]
    /\ UNCHANGED <<client, converter, mode, nextId, iterInit, iterInput>>

\* Firings handed to ConverterKind::firing_to_firing_xyz.
\* converter.packet_iter_to_firing_xyz_iter(packets): builds the lazy
\* iterator packets -> projected firings.
PacketIterToFiringXyzIter ==
    /\ mode = "idle"
    /\ nextId = 1
    /\ \E conv \in Converters, packets \in PacketStreams :
         /\ iter' = packet_iter_to_firing_xyz_iter(conv, packets)
         /\ iterInput' = packets
         /\ op' = [name |-> "packet_iter_to_firing_xyz_iter", arg |-> packets]
    /\ mode' = "firing_xyz_iter"
    /\ yielded' = <<>>
    /\ ret' = None
    /\ UNCHANGED <<client, converter, buffer, state, nextId, iterInit>>

\* converter.firing_iter_to_firing_xyz_iter(firings): builds the lazy
\* iterator firings -> projected firings. The firings are those of a
\* packet stream, already extracted.
FiringIterToFiringXyzIter ==
    /\ mode = "idle"
    /\ nextId = 1
    /\ \E conv \in Converters, packets \in PacketStreams :
         LET firings == Concat([p \in 1..Len(packets) |->
                                  packet_firings(packets[p], conv.variant)])
         IN  /\ iter' = firing_iter_to_firing_xyz_iter(conv, firings)
             /\ iterInput' = firings
             /\ op' = [name |-> "firing_iter_to_firing_xyz_iter", arg |-> firings]
    /\ mode' = "firing_xyz_iter"
    /\ yielded' = <<>>
    /\ ret' = None
    /\ UNCHANGED <<client, converter, buffer, state, nextId, iterInit>>

\* next() on the iterator of projected firings
FiringXyzIterNext ==
    /\ mode = "firing_xyz_iter"
    /\ LET returns(n) ==
               /\ iter' = n.iter
               /\ ret' = n.item
               /\ yielded' = yielded \o n.item
       IN  returns(iter_next(iter))
    /\ op' = [name |-> "firing_xyz_iter_next", arg |-> None]
    /\ UNCHANGED <<client, converter, buffer, mode, state, nextId, iterInit, iterInput>>

NextFiringIter ==
    \/ PacketIterToFiringXyzIter
    \/ FiringIterToFiringXyzIter
    \/ FiringXyzIterNext

SpecFiringIter == Init /\ [][NextFiringIter]_vars

\* Outcome of a call that can panic.
Returned(value) == [panicked |-> FALSE, value |-> value]

Panicked == [panicked |-> TRUE]

\* The frame's range taken from the start of its last firing.
frame_azimuth_range_last_start(frame) ==
    IF frame.firings = <<>>
    THEN Panicked
    ELSE LET start == azimuth_range(frame.firings[1]).start
             end == azimuth_range(Last(frame.firings)).start
         IN  Returned([start |-> start, end |-> end])

\* AzimuthRange::azimuth_range of FrameXyzS16 and its three siblings:
\* firings[0] and firings.last().unwrap() panic on a frame without firings.
frame_azimuth_range(frame) ==
    IF frame.firings = <<>>
    THEN Panicked
    ELSE LET start == azimuth_range(frame.firings[1]).start
             end == azimuth_range(Last(frame.firings)).end
         IN  Returned([start |-> start, end |-> end])

\* The frames of at most MaxFirings firings, the empty one included.
Frames ==
    {[firings |-> MakeFirings(1, ranges)] :
        ranges \in SeqUpTo(AzimuthRanges, MaxFirings)}

\* A frame has been built and nothing has been asked of it yet.
InitFrame ==
    /\ buffer = new
    /\ mode = "frame"
    /\ iter = NoIter
    /\ state = FALSE
    /\ nextId = 1
    /\ \E frame \in Frames : op = [name |-> "frame", arg |-> frame]
    /\ ret = None
    /\ iterInit = <<>>
    /\ iterInput = <<>>
    /\ yielded = <<>>
    /\ converter = None
    /\ client = NoClient

\* frame.azimuth_range()
FrameAzimuthRange ==
    /\ mode = "frame"
    /\ ret' = frame_azimuth_range(op.arg)
    /\ op' = [name |-> "frame_azimuth_range", arg |-> op.arg]
    /\ UNCHANGED <<client, converter, buffer, mode, iter, state, nextId, iterInit, iterInput,
                   yielded>>

NextFrame == FrameAzimuthRange

SpecFrame == InitFrame /\ [][NextFrame]_vars

\* Arguments of spherical_to_xyz: lengths, and angles on the axes.
Lengths == {-1, 0, 3, 10}

AxisAngles == {Scaled(0), Scaled(90), Scaled(180), Scaled(270)}

SphericalArgs ==
    [distance : {0, 10}, elevation : AxisAngles, azimuth : AxisAngles,
     vertical_offset : Lengths, horizontal_offset : Lengths]

\* The arguments of one call of spherical_to_xyz have been chosen.
InitXyz ==
    /\ buffer = new
    /\ mode = "xyz"
    /\ iter = NoIter
    /\ state = FALSE
    /\ nextId = 1
    /\ \E args \in SphericalArgs : op = [name |-> "args", arg |-> args]
    /\ ret = None
    /\ iterInit = <<>>
    /\ iterInput = <<>>
    /\ yielded = <<>>
    /\ converter = None
    /\ client = NoClient

\* spherical_to_xyz(distance, elevation, azimuth, vertical_offset,
\* horizontal_offset)
SphericalToXyz ==
    /\ mode = "xyz"
    /\ ret' = spherical_to_xyz(op.arg.distance, op.arg.elevation, op.arg.azimuth,
                               op.arg.vertical_offset, op.arg.horizontal_offset)
    /\ op' = [name |-> "spherical_to_xyz", arg |-> op.arg]
    /\ UNCHANGED <<client, converter, buffer, mode, iter, state, nextId, iterInit, iterInput,
                   yielded>>

NextXyz == SphericalToXyz

SpecXyz == InitXyz /\ [][NextXyz]_vars

\* CommandClient::connect has succeeded; the sensor's answers are fixed.
InitOuster ==
    /\ buffer = new
    /\ mode = "ouster"
    /\ iter = NoIter
    /\ state = FALSE
    /\ nextId = 1
    /\ op = [name |-> "connect", arg |-> None]
    /\ ret = None
    /\ iterInit = <<>>
    /\ yielded = <<>>
    /\ converter = None
    /\ \E incoming \in SeqUpTo(ResponseItems, MaxResponses) :
         /\ client = CommandClient(incoming)
         /\ iterInput = incoming

\* The client can be used, and has not sent more commands than the stream
\* can answer and one beyond.
CanCall ==
    /\ mode = "ouster"
    /\ client.alive
    /\ client.written <= MaxResponses

GetCommands ==
    {"get_config_txt", "get_time_info", "get_lidar_intrinsics",
     "get_imu_intrinsics", "get_beam_intrinsics"}

\* client.get_config_txt() and its four siblings
Get ==
    /\ CanCall
    /\ \E command \in GetCommands, write_ok \in BOOLEAN :
         LET r == get(client, command, write_ok)
         IN  /\ client' = r.self
             /\ ret' = r.result
             /\ op' = [name |-> command, arg |-> None]
    /\ UNCHANGED <<converter, buffer, mode, iter, state, nextId, iterInit, iterInput,
                   yielded>>

\* client.reinitialize()
Reinitialize ==
    /\ CanCall
    /\ \E write_ok \in BOOLEAN :
         LET r == reinitialize(client, write_ok)
         IN  /\ client' = r.self
             /\ ret' = r.result
    /\ op' = [name |-> "reinitialize", arg |-> None]
    /\ UNCHANGED <<converter, buffer, mode, iter, state, nextId, iterInit, iterInput,
                   yielded>>

\* client.write_config_txt()
WriteConfigTxt ==
    /\ CanCall
    /\ \E write_ok \in BOOLEAN :
         LET r == write_config_txt(client, write_ok)
         IN  /\ client' = r.self
             /\ ret' = r.result
    /\ op' = [name |-> "write_config_txt", arg |-> None]
    /\ UNCHANGED <<converter, buffer, mode, iter, state, nextId, iterInit, iterInput,
                   yielded>>

\* The setters, each with one value of its argument type.
Setters ==
    {[name |-> "set_udp_ip", arg |-> "10.0.0.1"],
     [name |-> "set_udp_port_lidar", arg |-> "7502"],
     [name |-> "set_udp_port_imu", arg |-> "7503"],
     [name |-> "set_lidar_mode", arg |-> "1024x10"],
     [name |-> "set_timestamp_mode", arg |-> "TIME_FROM_INTERNAL_OSC"],
     [name |-> "set_sync_pulse_in_polarity", arg |-> "ACTIVE_HIGH"],
     [name |-> "set_nmea_in_polarity", arg |-> "ACTIVE_LOW"]}

\* client.set_udp_ip(ip) and the six other setters
Set ==
    /\ CanCall
    /\ \E s \in Setters, write_ok \in BOOLEAN :
         LET r == CASE s.name = "set_udp_ip" -> set_udp_ip(client, s.arg, write_ok)
                    [] s.name = "set_udp_port_lidar" ->
                           set_udp_port_lidar(client, s.arg, write_ok)
                    [] s.name = "set_udp_port_imu" ->
                           set_udp_port_imu(client, s.arg, write_ok)
                    [] s.name = "set_lidar_mode" ->
                           set_lidar_mode(client, s.arg, write_ok)
                    [] s.name = "set_timestamp_mode" ->
                           set_timestamp_mode(client, s.arg, write_ok)
                    [] s.name = "set_sync_pulse_in_polarity" ->
                           set_sync_pulse_in_polarity(client, s.arg, write_ok)
                    [] s.name = "set_nmea_in_polarity" ->
                           set_nmea_in_polarity(client, s.arg, write_ok)
         IN  /\ client' = r.self
             /\ ret' = r.result
             /\ op' = [name |-> s.name, arg |-> s.arg]
    /\ UNCHANGED <<converter, buffer, mode, iter, state, nextId, iterInit, iterInput,
                   yielded>>

NextOuster ==
    \/ Get
    \/ Reinitialize
    \/ WriteConfigTxt
    \/ Set

SpecOuster == InitOuster /\ [][NextOuster]_vars

\* A field holds a boolean to be serialized, or a JSON value has arrived
\* for it.
InitSerde ==
    /\ buffer = new
    /\ mode = "serde"
    /\ iter = NoIter
    /\ state = FALSE
    /\ nextId = 1
    /\ \E field \in BoolAsIntFields :
         \/ \E b \in BOOLEAN : op = [name |-> "bool", arg |-> b, field |-> field]
         \/ \E json \in JsonValues : op = [name |-> "json", arg |-> json, field |-> field]
    /\ ret = None
    /\ iterInit = <<>>
    /\ iterInput = <<>>
    /\ yielded = <<>>
    /\ converter = None
    /\ client = NoClient

\* The field is serialized: the boolean is the one given at the start or
\* the one just deserialized.
SerBoolToInt ==
    /\ mode = "serde"
    /\ op.name = "bool" \/ (op.name = "de_bool_from_int" /\ ret.ok)
    /\ LET value == IF op.name = "bool" THEN op.arg ELSE ret.value
       IN  /\ ret' = ser_bool_to_int(value)
           /\ op' = [name |-> "ser_bool_to_int", arg |-> value, field |-> op.field]
    /\ UNCHANGED <<client, converter, buffer, mode, iter, state, nextId, iterInit,
                   iterInput, yielded>>

\* The field is deserialized: the JSON value is the one given at the start
\* or the one just serialized.
DeBoolFromInt ==
    /\ mode = "serde"
    /\ op.name = "json" \/ (op.name = "ser_bool_to_int" /\ ret.ok)
    /\ LET json == IF op.name = "json" THEN op.arg ELSE ret.value
       IN  /\ ret' = de_bool_from_int(json)
           /\ op' = [name |-> "de_bool_from_int", arg |-> json, field |-> op.field]
    /\ UNCHANGED <<client, converter, buffer, mode, iter, state, nextId, iterInit,
                   iterInput, yielded>>

NextSerde ==
    \/ SerBoolToInt
    \/ DeBoolFromInt

SpecSerde == InitSerde /\ [][NextSerde]_vars

\* A range that crosses 0 degrees: it starts at 359 and ends at 1.
CrossingRange == [start |-> 359, end |-> 1]

\* A range just below the full turn.
HighRange == [start |-> 359, end |-> 359]

RawFirings ==
    {MakeFiring(v, t, r, 0) :
        v \in FiringFormats, t \in {0, FIRING_PERIOD},
        r \in AzimuthRanges \cup {CrossingRange, HighRange}}

\* ConverterKind::from_config(config)
FromConfig ==
    /\ \E config \in Configs :
         /\ converter' = from_config(config)
         /\ op' = [name |-> "from_config", arg |-> config]
    /\ ret' = converter'
    /\ UNCHANGED <<client, buffer, mode, iter, state, nextId, iterInit, iterInput,
                   yielded>>

\* converter.firing_to_firing_xyz(firing) on a converter that was built
FiringToFiringXyz ==
    /\ converter # None
    /\ converter.ok
    /\ \E firing \in RawFirings :
         /\ ret' = kind_firing_to_firing_xyz(converter.value, firing)
         /\ op' = [name |-> "firing_to_firing_xyz", arg |-> firing]
    /\ UNCHANGED <<client, converter, buffer, mode, iter, state, nextId, iterInit, iterInput,
                   yielded>>

NextConv ==
    \/ FromConfig
    \/ FiringToFiringXyz

SpecConv == Init /\ [][NextConv]_vars

Next ==
    \/ PushOne
    \/ Take
    \/ PushMany
    \/ PushManyNext
    \/ PushManyDrop
    \/ WithIter
    \/ PacketIterToFrameXyzIter
    \/ WithIterNext

Spec == Init /\ [][Next]_vars

\* ---------------------------------------------------------------------
\* A whole stream through a fresh batcher: push every firing, then flush
\* ---------------------------------------------------------------------
\* Longest generated input stream.
MaxLen == 4

\* Start azimuths (degrees) of a stream that crosses 0 degrees once.
ExampleAzimuths == <<0, 90, 180, 270, 350, 5, 90, 180>>

ExampleStream ==
    MakeFirings(1, [i \in 1..Len(ExampleAzimuths) |->
                      [start |-> ExampleAzimuths[i], end |-> ExampleAzimuths[i]]])

StreamInputs ==
    {MakeFirings(1, ranges) : ranges \in SeqUpTo(AzimuthRanges, MaxLen)}
        \cup {ExampleStream}

InitStream ==
    /\ buffer = new
    /\ mode = "stream"
    /\ \E input \in StreamInputs :
         /\ iter = VecIter(input)
         /\ iterInput = input
    /\ state = FALSE
    /\ nextId = 1
    /\ op = [name |-> "new", arg |-> None]
    /\ ret = None
    /\ iterInit = <<>>
    /\ yielded = <<>>
    /\ converter = None
    /\ client = NoClient

\* The caller takes the next firing of the stream and pushes it.
StreamPush ==
    /\ mode = "stream"
    /\ LET n == iter_next(iter)
       IN  /\ n.item # None
           /\ LET r == push_one(buffer, n.item[1])
              IN  /\ buffer' = r.buffer
                  /\ ret' = r.output
                  /\ yielded' = yielded \o r.output
           /\ iter' = n.iter
           /\ op' = [name |-> "push_one", arg |-> n.item[1]]
    /\ UNCHANGED <<client, converter, mode, state, nextId, iterInit, iterInput>>

\* At end of stream the caller flushes the batcher once.
StreamFlush ==
    /\ mode = "stream"
    /\ iter_next(iter).item = None
    /\ LET r == take(buffer)
       IN  /\ buffer' = r.buffer
           /\ ret' = r.output
           /\ yielded' = yielded \o r.output
    /\ mode' = "flushed"
    /\ op' = [name |-> "take", arg |-> None]
    /\ UNCHANGED <<client, converter, iter, state, nextId, iterInit, iterInput>>

NextStream ==
    \/ StreamPush
    \/ StreamFlush

SpecStream == InitStream /\ [][NextStream]_vars

\* ---------------------------------------------------------------------
\* Helpers of the properties
\* ---------------------------------------------------------------------
\* Positions i where the start azimuth strictly decreases from i to i+1.
Decreases(s) ==
    {i \in 1..(Len(s) - 1) : start_azimuth(s[i]) > start_azimuth(s[i + 1])}

\* No strict decrease of the start azimuth between adjacent elements.
WrapFree(s) == Decreases(s) = {}

\* ---------------------------------------------------------------------
\* Properties
\* ---------------------------------------------------------------------
\* C1: push_one on a non-empty buffer with a firing whose start azimuth is
\* strictly below the last buffered one returns the whole previous buffer
\* and leaves exactly the new firing in the buffer.
C1_PushOneWrap ==
    [][(/\ op'.name = "push_one"
        /\ buffer # <<>>
        /\ start_azimuth(op'.arg) < start_azimuth(Last(buffer)))
       => (ret' = Some(buffer) /\ buffer' = <<op'.arg>>)]_vars

C1_Witness ==
    /\ mode = "idle"
    /\ op.name = "push_one"
    /\ ret # None
    /\ Len(ret[1]) >= 2
    /\ buffer = <<op.arg>>

\* C2: push_one on an empty buffer, or with a start azimuth greater than or
\* equal to the last buffered one, returns nothing and appends the firing.
C2_PushOneAppend ==
    [][(/\ op'.name = "push_one"
        /\ \/ buffer = <<>>
           \/ start_azimuth(op'.arg) >= start_azimuth(Last(buffer)))
       => (ret' = None /\ buffer' = Append(buffer, op'.arg))]_vars

\* The equal-azimuth case: appended, no frame boundary.
C2_Witness ==
    /\ mode = "idle"
    /\ op.name = "push_one"
    /\ ret = None
    /\ Len(buffer) >= 2
    /\ Last(buffer) = op.arg
    /\ start_azimuth(buffer[Len(buffer) - 1]) = start_azimuth(op.arg)

\* C3: once the stream is pushed and flushed, the emitted frames
\* concatenate to exactly the input sequence.
C3_Conservation ==
    mode = "flushed" => Concat(yielded) = iterInput

C3_Witness ==
    /\ mode = "flushed"
    /\ Len(yielded) >= 2
    /\ Len(iterInput) >= 3
    /\ Concat(yielded) = iterInput

\* C4: a non-empty stream yields 1 + d frames, d the number of strict
\* decreases; frames are wrap-free inside and separated by a decrease; the
\* example stream gives two frames of 5 and 3 firings.
C4_FrameCount ==
    (mode = "flushed" /\ iterInput # <<>>) =>
        /\ Len(yielded) = 1 + Cardinality(Decreases(iterInput))
        /\ \A k \in 1..Len(yielded) :
             /\ yielded[k] # <<>>
             /\ WrapFree(yielded[k])
             /\ k < Len(yielded) =>
                  start_azimuth(Last(yielded[k])) > start_azimuth(yielded[k + 1][1])
        /\ iterInput = ExampleStream =>
             /\ Len(yielded) = 2
             /\ Len(yielded[1]) = 5
             /\ Len(yielded[2]) = 3

C4_Witness ==
    /\ mode = "flushed"
    /\ iterInput = ExampleStream
    /\ Len(yielded) = 2

\* C5: take returns the whole non-empty buffer, or nothing for an empty
\* one, and always leaves the buffer empty; a take right after a take
\* returns nothing.
C5_Take ==
    [][op'.name = "take" =>
         /\ buffer' = <<>>
         /\ buffer # <<>> => ret' = Some(buffer)
         /\ buffer = <<>> => ret' = None
         /\ op.name = "take" => ret' = None]_vars

C5_Witness ==
    /\ mode = "idle"
    /\ op.name = "take"
    /\ ret # None
    /\ Len(ret[1]) >= 2
    /\ buffer = <<>>

\* C7: the buffer never holds a strict decrease of the start azimuth
\* between adjacent elements: it holds firings of one revolution only.
C7_OneFrameInFlight ==
    WrapFree(buffer)

C7_Witness ==
    /\ Len(buffer) >= 3
    /\ op.name = "push_many_next"
    /\ WrapFree(buffer)

\* The frames completed and the buffer left by pushing the firings one by
\* one into a batcher holding buf.
RECURSIVE PushAll(_, _)
PushAll(buf, firings) ==
    IF firings = <<>>
    THEN [buffer |-> buf, frames |-> <<>>]
    ELSE LET r == push_one(buf, Head(firings))
             rest == PushAll(r.buffer, Tail(firings))
         IN  [buffer |-> rest.buffer, frames |-> r.output \o rest.frames]

\* The frames of push_one on every firing followed by one take.
PushAllThenTake(buf, firings) ==
    LET r == PushAll(buf, firings)
    IN  r.frames \o take(r.buffer).output

\* The firings the adapter has pulled from its input so far.
Consumed == SubSeq(iterInput, 1, Len(iterInput) - Len(Unpulled(iter)))

\* C6: with_iter yields the frames completed by the firings consumed so
\* far and, once the input has ended, exactly the frames of push_one on each
\* firing followed by one take.
C6_WithIterFrames ==
    mode = "with_iter" =>
        IF state
        THEN yielded = PushAll(iterInit, Consumed).frames
        ELSE yielded = PushAllThenTake(iterInit, iterInput)

C6_Witness ==
    /\ mode = "with_iter"
    /\ ~state
    /\ op.name = "with_iter_next"
    /\ ret = None
    /\ Len(yielded) >= 2
    /\ yielded = PushAllThenTake(iterInit, iterInput)

\* The elements of the caller's input (firings, or packets) not pulled yet.
InputLeft(it) == IF it.kind = "vec" THEN it.items ELSE it.packets

\* C8: building the adapter or the packet pipeline pulls no input; each
\* next() pulls input only up to and including the firing (and the packet
\* holding it) that completes the returned frame, or up to end of input.
C8_LazyPull ==
    [][/\ op'.name \in {"with_iter", "packet_iter_to_frame_xyz_iter"} =>
            /\ InputLeft(iter') = op'.arg
            /\ iter'.kind = "flat_map" => iter'.frontiter = <<>>
            /\ yielded' = <<>>
       /\ op'.name = "with_iter_next" =>
            LET n == Len(Unpulled(iter)) - Len(Unpulled(iter'))
                pulled == SubSeq(Unpulled(iter), 1, n)
                before == buffer \o SubSeq(pulled, 1, n - 1)
            IN  /\ n >= 0
                /\ Unpulled(iter) = pulled \o Unpulled(iter')
                /\ state' => ret' # None
                /\ ~state' => Unpulled(iter') = <<>>
                /\ state' =>
                     /\ n >= 1
                     /\ before # <<>>
                     /\ WrapFree(before)
                     /\ start_azimuth(Last(before)) > start_azimuth(pulled[n])
                     /\ ret' = Some(before)
                /\ (state' /\ iter.kind = "flat_map") =>
                     LET m == Len(iter.packets) - Len(iter'.packets)
                     IN  /\ m >= 0
                         /\ iter.packets = SubSeq(iter.packets, 1, m) \o iter'.packets
                         /\ m >= 1 => Len(iter'.frontiter) < FiringsPerPacket]_vars

\* A frame came out of the pipeline while a whole packet is still unpulled.
C8_Witness ==
    /\ mode = "with_iter"
    /\ op.name = "with_iter_next"
    /\ iter.kind = "flat_map"
    /\ state
    /\ ret # None
    /\ Len(iter.packets) >= 1

\* C9: ConverterKind::firing_to_firing_xyz returns a projected firing of the
\* converter's variant when the firing has that variant, and otherwise an
\* error that hands the firing back unchanged.
C9_FormatMismatch ==
    (op.name = "firing_to_firing_xyz") =>
        LET V == firing_format(converter.value)
            W == op.arg.variant
        IN  /\ V = W => (ret.ok /\ ret.value.variant = V)
            /\ V # W => (~ret.ok /\ ret.error = op.arg)

C9_Witness ==
    /\ op.name = "firing_to_firing_xyz"
    /\ firing_format(converter.value) = "Single16"
    /\ op.arg.variant = "Dual16"
    /\ ~ret.ok
    /\ ret.error = op.arg

\* Beam count of a firing format.
BeamCount(f) == IF f \in {"Single16", "Dual16"} THEN 16 ELSE 32

\* C10: from_config yields a converter of the configuration's firing format
\* when the laser table has that format's beam count, and an error for
\* every other length.
C10_FromConfig ==
    (op.name = "from_config") =>
        LET config == op.arg
        IN  IF Len(config.lasers) = BeamCount(config.firing_format)
            THEN converter.ok /\ firing_format(converter.value) = config.firing_format
            ELSE ~converter.ok

C10_Witness ==
    /\ op.name = "from_config"
    /\ op.arg.firing_format = "Single16"
    /\ Len(op.arg.lasers) = 15
    /\ ~converter.ok

\* C11: from_config fails for a distance resolution that is zero or
\* negative, and every converter it builds has a positive one.
C11_DistanceResolutionChecked ==
    (op.name = "from_config") =>
        /\ op.arg.distance_resolution <= 0 => ~converter.ok
        /\ converter.ok => converter.value.distance_resolution > 0

\* A projection has just been produced: firing_to_firing_xyz returned Ok.
Projected == op.name = "firing_to_firing_xyz" /\ ret.ok

\* The points of the projected firing, as a sequence in index order.
Points == ret.value.points

\* No laser of the converter has an azimuth offset.
ZeroAzimuthOffsets ==
    \A i \in DOMAIN converter.value.lasers :
        converter.value.lasers[i].azimuth_offset = 0

\* azimuth lies on the clockwise arc that runs from start to end.
OnClockwiseArc(azimuth, range) ==
    (azimuth - Scaled(range.start)) % Scaled(TwoPi)
        <= Scaled((range.end - range.start) % TwoPi)

\* C12: with no laser azimuth offsets, every point azimuth of a projected
\* firing lies on the clockwise arc from the start to the end of the firing's
\* azimuth range, also when the range crosses 0 degrees.
C12_WrapAwareInterpolation ==
    (Projected /\ ZeroAzimuthOffsets) =>
        \A k \in DOMAIN Points :
            OnClockwiseArc(Points[k].azimuth, op.arg.azimuth_range)

\* The time the claim gives to the point at index k (from 0) of a variant.
ClaimedTime(variant, firing_time, k) ==
    IF BeamCount(variant) = 16
    THEN firing_time + k * CHANNEL_PERIOD
    ELSE firing_time + (k \div 2) * CHANNEL_PERIOD

\* C13: the point at index k of a 16-beam firing has time firing_time + k *
\* CHANNEL_PERIOD, that of a 32-beam firing firing_time + floor(k / 2) *
\* CHANNEL_PERIOD.
C13_ChannelTime ==
    Projected =>
        \A k \in DOMAIN Points :
            Points[k].time = ClaimedTime(op.arg.variant, op.arg.time, k - 1)

C13_Witness ==
    /\ Projected
    /\ op.arg.variant = "Dual32"
    /\ op.arg.time = FIRING_PERIOD
    /\ Points[5].time = FIRING_PERIOD + 2 * CHANNEL_PERIOD
    /\ Points[6].time = Points[5].time

\* C14: the point times of a projected firing never decrease with the index,
\* and the last is at most FIRING_PERIOD after the first, so that
\* channel_time - firing_time lies between 0 and FIRING_PERIOD.
C14_TimesWithinFiring ==
    Projected =>
        /\ \A k \in DOMAIN Points :
               k > 1 => Points[k - 1].time <= Points[k].time
        /\ Last(Points).time - Points[1].time <= FIRING_PERIOD
        /\ \A k \in DOMAIN Points :
               /\ 0 <= Points[k].time - op.arg.time
               /\ Points[k].time - op.arg.time <= FIRING_PERIOD

C14_Witness ==
    /\ Projected
    /\ op.arg.variant = "Single32"
    /\ Last(Points).time - Points[1].time = 15 * CHANNEL_PERIOD
    /\ Points[2].time = Points[1].time

\* The first measurement of a point: the only one of a single-return point,
\* the strongest of a dual-return point.
Strongest(variant, point) ==
    IF variant \in {"Single16", "Single32"}
    THEN point.measurement
    ELSE point.measurements.strongest

\* The channel that Strongest is measured from.
StrongestChannel(firing, k) ==
    IF firing.variant \in {"Single16", "Single32"}
    THEN firing.channels[k]
    ELSE firing.channels_strongest[k]

\* C15: a projected firing has 16 or 32 points by its variant, the point at
\* index i has laser_id i, and it is computed from channel i and laser i.
C15_PointPerLaser ==
    Projected =>
        /\ Len(Points) = BeamCount(op.arg.variant)
        /\ \A k \in DOMAIN Points :
             LET m == Strongest(op.arg.variant, Points[k])
                 laser == converter.value.lasers[k]
             IN  /\ Points[k].laser_id = k - 1
                 /\ m.intensity = StrongestChannel(op.arg, k).intensity
                 /\ m.distance = converter.value.distance_resolution
                                     * StrongestChannel(op.arg, k).distance
                 /\ m.xyz.elevation = Scaled(laser.elevation)
                 /\ Points[k].azimuth =
                        point_azimuth(op.arg.azimuth_range, Points[k].time,
                                      op.arg.time, laser.azimuth_offset)

C15_Witness ==
    /\ Projected
    /\ op.arg.variant = "Single16"
    /\ Len(Points) = 16
    /\ Points[1].laser_id = 0
    /\ Points[16].laser_id = 15
    /\ Points[16].measurement.intensity = op.arg.channels[16].intensity
    /\ Points[16].measurement.xyz.elevation = Scaled(16)

\* C16: every point azimuth of a projected firing lies in [0, 360) degrees,
\* whatever the azimuth range and the azimuth offsets of the lasers.
C16_AzimuthWrapped ==
    Projected =>
        \A k \in DOMAIN Points :
            /\ 0 <= Points[k].azimuth
            /\ Points[k].azimuth < Scaled(TwoPi)

C16_Witness ==
    /\ Projected
    /\ op.arg.azimuth_range = [start |-> 0, end |-> 0]
    /\ converter.value.lasers[1].azimuth_offset = -2
    /\ converter.value.lasers[3].azimuth_offset = 2
    /\ Points[1].azimuth = Scaled(358)
    /\ Points[3].azimuth = Scaled(2)

\* The projected firings of a packet stream, written out by position:
\* firing i of packet p, for p and then i in increasing order.
ExpectedFromPackets(conv, packets) ==
    Concat([p \in 1..Len(packets) |->
              [i \in 1..Len(packet_firings(packets[p], conv.variant)) |->
                  firing_to_firing_xyz(conv,
                      packet_firings(packets[p], conv.variant)[i])]])

\* The projected firings of a firing stream, written out by position.
ExpectedFromFirings(conv, firings) ==
    [i \in 1..Len(firings) |-> firing_to_firing_xyz(conv, firings[i])]

\* C17: the iterator of projected firings hands out one projection per
\* extracted firing, packet after packet and in extraction order inside a
\* packet (packet input), or one per input firing in input order (firing
\* input); when it ends, all of them have been handed out.
C17_FiringOrder ==
    (mode = "firing_xyz_iter") =>
        LET expected == IF iter.kind = "flat_map"
                        THEN ExpectedFromPackets(iter.conv, iterInput)
                        ELSE ExpectedFromFirings(iter.conv, iterInput)
        IN  /\ Len(yielded) <= Len(expected)
            /\ yielded = SubSeq(expected, 1, Len(yielded))
            /\ (op.name = "firing_xyz_iter_next" /\ ret = None) => yielded = expected

C17_Witness ==
    /\ mode = "firing_xyz_iter"
    /\ iter.kind = "flat_map"
    /\ Len(iterInput) = 2
    /\ op.name = "firing_xyz_iter_next"
    /\ ret = None
    /\ Len(yielded) = 2 * FiringsPerPacket
    /\ yielded[FiringsPerPacket].time < yielded[FiringsPerPacket + 1].time

\* C18: the azimuth range of a frame with at least one firing runs from the
\* start of its first firing to the end of its last firing; for a frame of
\* one firing it is that firing's range.
C18_FrameAzimuthRange ==
    (op.name = "frame_azimuth_range" /\ op.arg.firings # <<>>) =>
        /\ ~ret.panicked
        /\ ret.value.start = op.arg.firings[1].azimuth_range.start
        /\ ret.value.end = op.arg.firings[Len(op.arg.firings)].azimuth_range.end
        /\ Len(op.arg.firings) = 1 => ret.value = op.arg.firings[1].azimuth_range

C18_Witness ==
    /\ op.name = "frame_azimuth_range"
    /\ Len(op.arg.firings) = 3
    /\ op.arg.firings[1].azimuth_range = [start |-> 1, end |-> 2]
    /\ op.arg.firings[3].azimuth_range = [start |-> 0, end |-> 1]
    /\ ret = Returned([start |-> 1, end |-> 1])

\* The call had distance 10 and no offsets.
TenNoOffsets ==
    /\ op.arg.distance = 10
    /\ op.arg.vertical_offset = 0
    /\ op.arg.horizontal_offset = 0

\* C19: with distance 10 and no offsets spherical_to_xyz gives (0, 10, 0) at
\* elevation 0 and azimuth 0, (10, 0, 0) at elevation 0 and azimuth 90
\* degrees, and (0, 0, 10) at elevation 90 degrees; in general
\* d_plane = distance cos(el) - v_offset sin(el),
\* x = d_plane sin(az) - h_offset cos(az),
\* y = d_plane cos(az) + h_offset sin(az),
\* z = distance sin(el) + v_offset cos(el).
C19_SphericalToXyz ==
    (op.name = "spherical_to_xyz") =>
        LET el == op.arg.elevation
            az == op.arg.azimuth
            d_plane == op.arg.distance * Cos(el) - op.arg.vertical_offset * Sin(el)
        IN  /\ (TenNoOffsets /\ el = Scaled(0) /\ az = Scaled(0)) => ret = <<0, 10, 0>>
            /\ (TenNoOffsets /\ el = Scaled(0) /\ az = Scaled(90)) => ret = <<10, 0, 0>>
            /\ (TenNoOffsets /\ el = Scaled(90)) => ret = <<0, 0, 10>>
            /\ ret[1] = d_plane * Sin(az) - op.arg.horizontal_offset * Cos(az)
            /\ ret[2] = d_plane * Cos(az) + op.arg.horizontal_offset * Sin(az)
            /\ ret[3] = op.arg.distance * Sin(el) + op.arg.vertical_offset * Cos(el)

C19_Witness ==
    /\ op.name = "spherical_to_xyz"
    /\ TenNoOffsets
    /\ op.arg.elevation = Scaled(0)
    /\ op.arg.azimuth = Scaled(90)
    /\ ret = <<10, 0, 0>>

\* The commands that are answered by an echo, and the echo of each.
EchoCommands ==
    {"reinitialize", "write_config_txt"} \cup {s.name : s \in Setters}

EchoOf(name) ==
    CASE name = "reinitialize" -> "reinitialize"
      [] name = "write_config_txt" -> "write_config_txt"
      [] OTHER -> "set_config_param"

\* C20: reinitialize, write_config_txt and the setters succeed only when the
\* one response line they read is the command's name ("set_config_param"
\* for the setters); a different line gives the "Unexpected response"
\* error, and a closed stream gives an error.
C20_EchoCheck ==
    [][(op'.name \in EchoCommands) =>
          /\ ret'.ok =>
                /\ client.incoming # <<>>
                /\ Head(client.incoming) = Line(EchoOf(op'.name))
                /\ client'.incoming = Tail(client.incoming)
          /\ (/\ client'.written = client.written + 1
              /\ client.incoming # <<>>
              /\ Head(client.incoming).kind = "line"
              /\ Head(client.incoming).text # EchoOf(op'.name)) =>
                (~ret'.ok /\ ret'.error = "Unexpected response")
          /\ client.incoming = <<>> => ~ret'.ok
      ]_vars

C20_Witness ==
    /\ op.name = "set_lidar_mode"
    /\ client.line = <<"set_config_param", "lidar_mode", "1024x10">>
    /\ client.written = 2
    /\ client.incoming = <<>>
    /\ ~ret.ok
    /\ ret.error = "Unexpected response"

\* Every command method of the client.
Commands == GetCommands \cup EchoCommands

\* The items the reader has given so far, counted against the whole script
\* of the sensor.
LinesRead(whole, c) == Len(whole) - Len(c.incoming)

\* C21: every command writes at most one command line and, once it is
\* written, reads exactly one item of the stream, whether or not the answer
\* is accepted; a command whose write fails reads nothing. So while answers
\* arrive, the k-th command written consumes the k-th response and the lines
\* written and read stay equal.
C21_Alternation ==
    [][(op'.name \in Commands) =>
          LET wrote == client'.written = client.written + 1
              answered == client.incoming # <<>>
          IN  /\ wrote \/ client'.written = client.written
              /\ wrote => client'.line[1] = EchoOf(op'.name) \/ client'.line = <<op'.name>>
              /\ ~wrote => client'.incoming = client.incoming
              /\ (wrote /\ answered) => client'.incoming = Tail(client.incoming)
              /\ (wrote /\ answered /\ client.written = LinesRead(iterInput, client)) =>
                    /\ Head(client.incoming) = iterInput[client'.written]
                    /\ client'.written = LinesRead(iterInput', client')
      ]_vars

C21_Witness ==
    /\ mode = "ouster"
    /\ op.name = "get_time_info"
    /\ ~ret.ok
    /\ ret.error = "json"
    /\ Len(iterInput) = 2
    /\ client.written = 2
    /\ LinesRead(iterInput, client) = 2

\* C22: serialization writes true as 1 and false as 0; deserialization
\* reads 1 as true and 0 as false and fails on every other unsigned integer;
\* deserializing what was serialized gives the boolean back, and serializing
\* what was deserialized from 0 or 1 gives the integer back.
C22_BoolAsInt ==
    [][/\ (op'.name = "ser_bool_to_int" /\ op'.arg = TRUE) => ret' = Ok(U64(1))
       /\ (op'.name = "ser_bool_to_int" /\ op'.arg = FALSE) => ret' = Ok(U64(0))
       /\ (op'.name = "de_bool_from_int" /\ op'.arg = U64(1)) => ret' = Ok(TRUE)
       /\ (op'.name = "de_bool_from_int" /\ op'.arg = U64(0)) => ret' = Ok(FALSE)
       /\ (/\ op'.name = "de_bool_from_int"
           /\ op'.arg.kind = "u64"
           /\ op'.arg.v \notin {0, 1}) => ~ret'.ok
       /\ (op.name = "ser_bool_to_int" /\ op'.name = "de_bool_from_int") =>
             ret' = Ok(op.arg)
       /\ (op.name = "de_bool_from_int" /\ op'.name = "ser_bool_to_int") =>
             (op.arg.v \in {0, 1} /\ ret' = Ok(op.arg))
      ]_vars

C22_Witness ==
    /\ mode = "serde"
    /\ op.name = "de_bool_from_int"
    /\ op.arg = U64(2)
    /\ ~ret.ok
    /\ ret.error = "invalid value"

\* The operations that return a frame, if any.
EmittingOps == {"push_one", "take", "push_many_next", "with_iter_next"}

\* C23: every frame returned by push_one, take, the push_many iterator or
\* the with_iter iterator has at least one element and no decrease of the
\* start azimuth between adjacent elements, so its azimuth range (first
\* start, last end) is defined.
C23_EmittedFrames ==
    (op.name \in EmittingOps /\ ret # None) =>
        LET frame == ret[1]
        IN  /\ frame # <<>>
            /\ WrapFree(frame)
            /\ frame_azimuth_range([firings |-> frame]) =
                  Returned([start |-> start_azimuth(frame[1]),
                            end |-> end_azimuth(Last(frame))])

C23_Witness ==
    /\ op.name = "with_iter_next"
    /\ ~state
    /\ ret # None
    /\ Len(ret[1]) >= 2
    /\ WrapFree(ret[1])
    /\ Len(yielded) >= 2

\* All frames of the iterator returned by push_many, pulled until it ends,
\* and the buffer it leaves.
RECURSIVE DrainPushMany(_, _)
DrainPushMany(buf, it) ==
    LET drained(r) ==
            IF r.output = None
            THEN [frames |-> <<>>, buffer |-> r.buffer]
            ELSE LET rest == DrainPushMany(r.buffer, r.iter)
                 IN  [frames |-> r.output \o rest.frames, buffer |-> rest.buffer]
    IN  drained(push_many_next(buf, it))

\* All frames of the iterator returned by with_iter, pulled until it ends.
RECURSIVE DrainWithIter(_)
DrainWithIter(st) ==
    LET drained(r) ==
            IF r.output = None
            THEN <<>>
            ELSE r.output \o
                 DrainWithIter([some |-> r.some, iter |-> r.iter, buffer |-> r.buffer])
    IN  drained(with_iter_next(st))

\* C24: building the push_many iterator, or dropping it unpulled, leaves the
\* buffer as it is; each next() returns the one frame completed by a wrap
\* among the firings it pulls, or nothing once the input has ended, and
\* leaves the firings after the last wrap in the buffer; pulling it to the
\* end and then calling take gives the frames of with_iter on that input.
C24_PushManyNoFlush ==
    [][/\ op'.name = "push_many" =>
             /\ buffer' = buffer
             /\ LET d == DrainPushMany(buffer', iter')
                IN  /\ d.frames = PushAll(buffer', op'.arg).frames
                    /\ d.buffer = PushAll(buffer', op'.arg).buffer
                    /\ d.frames \o take(d.buffer).output =
                          DrainWithIter([some |-> TRUE, iter |-> iter',
                                         buffer |-> buffer'])
       /\ op'.name = "push_many_next" =>
             LET left == Len(Unpulled(iter'))
                 pulled == SubSeq(Unpulled(iter), 1, Len(Unpulled(iter)) - left)
                 r == PushAll(buffer, pulled)
             IN  /\ ret' = r.frames
                 /\ buffer' = r.buffer
                 /\ ret' = None => left = 0
                 /\ (ret' = None /\ buffer \o pulled # <<>>) => buffer' # <<>>
       /\ (op'.name = "push_many_drop" /\ op.name = "push_many") => buffer' = buffer
      ]_vars

C24_Witness ==
    /\ mode = "push_many"
    /\ op.name = "push_many_next"
    /\ ret = None
    /\ Unpulled(iter) = <<>>
    /\ Len(buffer) >= 2

\* An input that would hand out one more firing if it were polled.
ProbeIter == VecIter(<<[id |-> 0, azimuth_range |-> [start |-> 0, end |-> 0]]>>)

\* C25: every next() of the with_iter iterator that does not end it takes
\* at least one firing from the finite input, and the frames never hold more
\* firings than were given; once the input has ended every next() returns
\* end-of-sequence and does not poll the input, even one that would give
\* more; an empty input with an empty batcher yields no frame; firings the
\* batcher already held open the first frame.
C25_WithIterTerminates ==
    [][op'.name = "with_iter_next" =>
          /\ state => (~state' \/ Len(Unpulled(iter')) < Len(Unpulled(iter)))
          /\ ret' = None => ~state'
          /\ ~state =>
                /\ ret' = None
                /\ ~state'
                /\ iter' = iter
                /\ buffer' = buffer
                /\ with_iter_next([some |-> FALSE, iter |-> ProbeIter, buffer |-> buffer])
                      = [some |-> FALSE, iter |-> ProbeIter, buffer |-> buffer,
                         output |-> None]
          /\ Len(Concat(yielded')) <= Len(iterInit) + Len(iterInput)
          /\ (iterInit = <<>> /\ iterInput = <<>>) => (ret' = None /\ yielded' = <<>>)
          /\ (iterInit # <<>> /\ ~state') => yielded' # <<>>
          /\ (iterInit # <<>> /\ yielded' # <<>>) =>
                SubSeq(yielded'[1], 1, Len(iterInit)) = iterInit
      ]_vars

C25_Witness ==
    /\ mode = "with_iter"
    /\ op.name = "with_iter_next"
    /\ ~state
    /\ ret = None
    /\ iterInit # <<>>
    /\ Len(yielded) >= 2
    /\ Len(yielded[1]) > Len(iterInit)
    /\ SubSeq(yielded[1], 1, Len(iterInit)) = iterInit

====
